---- MODULE Spec2Model ----
(***************************************************************************)
(* A model of src/yajl_tree.c: the construction of a document tree from    *)
(* the parse events of the yajl tokenizer.                                 *)
(*                                                                         *)
(* Pointers are indices into `heap` (NULL is 0); `live` is the set of      *)
(* heap blocks that have been allocated and not yet freed.  The tokenizer  *)
(* (yajl_parse, yajl_parse_complete) is an event source that may deliver   *)
(* any event at any time and reports its own status.                       *)
(***************************************************************************)
EXTENDS Integers, Sequences, FiniteSets, TLC

\* ------------------------------------------------------------- bounds
\* Events the event source delivers to one parse call.
MaxEvents == 4
\* Events of the event source of whole documents (SpecTree).
MaxTreeEvents == 5
\* Events of the object-only event source (SpecObj).
MaxObjEvents == 6
\* Length of the generated numeric literals (SpecNum).
MaxLitLen == 2

\* ---------------------------------------------------------- constants
STATUS_CONTINUE == 1
STATUS_ABORT == 0
NULL == 0
EINVAL == 22
ENOMEM == 12

\* Byte strings delivered with string / map-key events.
Strings == {"a", "b"}
\* Number literals delivered by the general event source.
Literals == {<<"1">>, <<"1", ".", "5">>}
\* Outcomes of one malloc/realloc call: TRUE is success.
AllocOutcomes == BOOLEAN
\* Outcomes of storing through the NULL pointer that YAJL_TO_NUMBER yields
\* for a value whose type tag is not NUMBER: the store traps, or, in a
\* process that has memory mapped at address 0, it lands there and leaves
\* the value as it was.
NullDerefOutcomes == {"trap", "store"}
\* Status the tokenizer reports from yajl_parse_complete.
TokenizerStatuses == {"ok", "error"}

VARIABLES
  heap,       \* every yajl_value_t allocated so far; a pointer is an index
  live,       \* allocated blocks not freed: <<kind, owner>>
  stack,      \* ctx.stack, top first: [key, value]
  root,       \* ctx.root
  pc,         \* "parsing", "returned" or "crashed"
  result,     \* what yajl_tree_parse returned
  status,     \* what the last handler returned
  err,        \* the error code behind it: 0, EINVAL or ENOMEM
  ndebug,     \* TRUE when the build defines NDEBUG (assert compiled out)
  remaining,  \* events the event source can still deliver
  routed,     \* history: per container, the values passed to context_add_value
  freed,      \* history: the blocks yajl_tree_free passed to free, in order
  last        \* history: the last event, the depth before it, its value

vars == <<heap, live, stack, root, pc, result, status, err, ndebug, remaining, routed,
          freed, last>>

\* ------------------------------------------------------------ values
\* The pointers value and value_raw are <<>> when NULL and <<t>> when
\* they point at a buffer holding the text t.
value_alloc(type) ==
  [type |-> type, value |-> <<>>, value_raw |-> <<>>,
   value_int |-> [neg |-> FALSE, mag |-> <<>>], flags |-> {},
   keys |-> <<>>, values |-> <<>>, children |-> <<>>]

YAJL_IS_STRING(h, v) == v # NULL /\ h[v].type = "string"
YAJL_IS_NUMBER(h, v) == v # NULL /\ h[v].type = "number"
YAJL_IS_OBJECT(h, v) == v # NULL /\ h[v].type = "object"
YAJL_IS_ARRAY(h, v) == v # NULL /\ h[v].type = "array"

\* The block of a stack element is named by the depth it is pushed at.
StackBlock(st) == <<"stack", Len(st)>>

\* `routed` has one entry per allocated value.
Grow(rt, n) == [i \in 1..n |-> IF i <= Len(rt) THEN rt[i] ELSE <<>>]

\* ------------------------------------------------- returning a status
\* A handler returns `code`, for the reason `rc`, with the context as given.
\* STATUS_ABORT makes yajl_parse return a status other than ok, and
\* yajl_tree_parse returns NULL at once, freeing nothing.
Return(h, l, st, r, rt, code, rc) ==
  /\ heap' = h
  /\ live' = l
  /\ stack' = st
  /\ root' = r
  /\ routed' = Grow(rt, Len(h))
  /\ freed' = freed
  /\ status' = code
  /\ err' = rc
  /\ pc' = IF code = STATUS_CONTINUE THEN "parsing" ELSE "returned"
  /\ result' = NULL

\* (rc == 0) ? STATUS_CONTINUE : STATUS_ABORT
Finish(h, l, st, r, rt, rc) ==
  Return(h, l, st, r, rt, IF rc = 0 THEN STATUS_CONTINUE ELSE STATUS_ABORT, rc)

\* The process is terminated (failed assert, trap).
Crash(h, l, st, rt) ==
  /\ heap' = h
  /\ live' = l
  /\ stack' = st
  /\ routed' = Grow(rt, Len(h))
  /\ freed' = freed
  /\ pc' = "crashed"
  /\ UNCHANGED <<root, status, err, result>>

\* ------------------------------------------------------ frame stack
\* After the malloc of the element, assert ((ctx->stack == NULL) ||
\* YAJL_IS_OBJECT (v) || YAJL_IS_ARRAY (v)) ends the process unless it is
\* compiled out.
context_push(h, l, st, v) ==
  \E ok \in AllocOutcomes :
    IF ~ok
      THEN Finish(h, l, st, root, routed, ENOMEM)
      ELSE LET st1 == <<[key |-> NULL, value |-> v]>> \o st
           IN  IF ~ndebug /\ ~(st = <<>> \/ YAJL_IS_OBJECT(h, v)
                                          \/ YAJL_IS_ARRAY(h, v))
                 THEN Crash(h, l \cup {StackBlock(st1)}, st, routed)
                 ELSE Finish(h, l \cup {StackBlock(st1)}, st1, root, routed, 0)

\* A context_pop that takes the frame opened first.
context_pop_PopsBottom(st, l) ==
  IF st = <<>>
    THEN [v |-> NULL, stack |-> st, live |-> l]
    ELSE [v |-> st[Len(st)].value, stack |-> SubSeq(st, 1, Len(st) - 1),
          live |-> l \ {StackBlock(st)}]

\* A context_pop without ctx->stack = stack->next.
context_pop_KeepsFrame(st, l) ==
  IF st = <<>>
    THEN [v |-> NULL, stack |-> st, live |-> l]
    ELSE [v |-> st[1].value, stack |-> st, live |-> l \ {StackBlock(st)}]

\* The popped value, the remaining stack and the blocks left after free (stack).
context_pop(st, l) ==
  IF st = <<>>
    THEN [v |-> NULL, stack |-> st, live |-> l]
    ELSE [v |-> st[1].value, stack |-> Tail(st), live |-> l \ {StackBlock(st)}]

\* An object_add_keyval that overwrites the value of an entry whose key
\* has the same text instead of appending.
object_add_keyval_Overwrites(h, l, st, rt, obj, key, value) ==
  LET same == {i \in 1..Len(h[obj].keys) : h[h[obj].keys[i]].value = h[key].value}
  IN  IF same # {}
        THEN Finish([h EXCEPT ![obj].values[CHOOSE i \in same : TRUE] = value],
                    l, st, root, rt, 0)
        ELSE Finish([h EXCEPT ![obj].keys = Append(@, key),
                              ![obj].values = Append(@, value)],
                    l \cup {<<"keys", obj>>, <<"values", obj>>}, st, root, rt, 0)

object_add_keyval(h, l, st, rt, obj, key, value) ==
  IF obj = NULL \/ key = NULL \/ value = NULL
    THEN Finish(h, l, st, root, rt, EINVAL)
  ELSE IF ~YAJL_IS_STRING(h, key)
    THEN Finish(h, l, st, root, rt, EINVAL)
  ELSE IF ~YAJL_IS_OBJECT(h, obj)
    THEN Finish(h, l, st, root, rt, EINVAL)
  ELSE
    \E ok1 \in AllocOutcomes :
      IF ~ok1
        THEN Finish(h, l, st, root, rt, ENOMEM)
        ELSE
          LET l1 == l \cup {<<"keys", obj>>} IN
          \E ok2 \in AllocOutcomes :
            IF ~ok2
              THEN Finish(h, l1, st, root, rt, ENOMEM)
              ELSE Finish([h EXCEPT ![obj].keys = Append(@, key),
                                    ![obj].values = Append(@, value)],
                          l1 \cup {<<"values", obj>>}, st, root, rt,
                          0)

\* An array_add_value that stores the new child at index 0.
array_add_value_Prepends(h, l, st, rt, array, value) ==
  IF array = NULL \/ value = NULL
    THEN Finish(h, l, st, root, rt, EINVAL)
  ELSE IF ~YAJL_IS_ARRAY(h, array)
    THEN Finish(h, l, st, root, rt, EINVAL)
  ELSE
    \E ok \in AllocOutcomes :
      IF ~ok
        THEN Finish(h, l, st, root, rt, ENOMEM)
        ELSE Finish([h EXCEPT ![array].children = <<value>> \o @],
                    l \cup {<<"children", array>>}, st, root, rt,
                    0)

array_add_value(h, l, st, rt, array, value) ==
  IF array = NULL \/ value = NULL
    THEN Finish(h, l, st, root, rt, EINVAL)
  ELSE IF ~YAJL_IS_ARRAY(h, array)
    THEN Finish(h, l, st, root, rt, EINVAL)
  ELSE
    \E ok \in AllocOutcomes :
      IF ~ok
        THEN Finish(h, l, st, root, rt, ENOMEM)
        ELSE Finish([h EXCEPT ![array].children = Append(@, value)],
                    l \cup {<<"children", array>>}, st, root, rt,
                    0)

\* A context_add_value that leaves ctx->stack->key set after the entry
\* has been added.
context_add_value_KeepsKey(h, l, st, v) ==
  LET rt == IF st = <<>> THEN routed
            ELSE [Grow(routed, Len(h)) EXCEPT ![st[1].value] = Append(@, v)]
  IN
  IF st = <<>>
    THEN IF root = NULL \/ ndebug
           THEN Finish(h, l, st, v, rt, 0)
           ELSE Crash(h, l, st, rt)
  ELSE IF YAJL_IS_OBJECT(h, st[1].value)
    THEN IF st[1].key = NULL
           THEN IF ~YAJL_IS_STRING(h, v)
                  THEN Finish(h, l, st, root, rt, EINVAL)
                  ELSE Finish(h, l, [st EXCEPT ![1].key = v], root, rt,
                              0)
           ELSE object_add_keyval(h, l, st, rt, st[1].value, st[1].key, v)
  ELSE IF YAJL_IS_ARRAY(h, st[1].value)
    THEN array_add_value(h, l, st, rt, st[1].value, v)
  ELSE Finish(h, l, st, root, rt, EINVAL)

context_add_value(h, l, st, v) ==
  LET rt == IF st = <<>> THEN routed
            ELSE [Grow(routed, Len(h)) EXCEPT ![st[1].value] = Append(@, v)]
  IN
  IF st = <<>>
    THEN IF root = NULL \/ ndebug
           THEN Finish(h, l, st, v, rt, 0)
           ELSE Crash(h, l, st, rt)
  ELSE IF YAJL_IS_OBJECT(h, st[1].value)
    THEN IF st[1].key = NULL
           THEN IF ~YAJL_IS_STRING(h, v)
                  THEN Finish(h, l, st, root, rt, EINVAL)
                  ELSE Finish(h, l, [st EXCEPT ![1].key = v], root, rt,
                              0)
           ELSE object_add_keyval(h, l, [st EXCEPT ![1].key = NULL], rt,
                                  st[1].value, st[1].key, v)
  ELSE IF YAJL_IS_ARRAY(h, st[1].value)
    THEN array_add_value(h, l, st, rt, st[1].value, v)
  ELSE Finish(h, l, st, root, rt, EINVAL)

\* ------------------------------------------------- strtoll and strtod
\* A literal is a sequence of one-character strings; position Len + 1 is
\* the terminating NUL that handle_number writes after the copy.
Digits == {"0", "1", "2", "3", "4", "5", "6", "7", "8", "9"}
DigitVal(c) ==
  CASE c = "0" -> 0 [] c = "1" -> 1 [] c = "2" -> 2 [] c = "3" -> 3
    [] c = "4" -> 4 [] c = "5" -> 5 [] c = "6" -> 6 [] c = "7" -> 7
    [] c = "8" -> 8 [] c = "9" -> 9
DigitChar(n) ==
  CASE n = 0 -> "0" [] n = 1 -> "1" [] n = 2 -> "2" [] n = 3 -> "3"
    [] n = 4 -> "4" [] n = 5 -> "5" [] n = 6 -> "6" [] n = 7 -> "7"
    [] n = 8 -> "8" [] n = 9 -> "9"

\* The hexadecimal digits strtod accepts after 0x, and their four bits.
HexDigits ==
  Digits \cup {"a", "b", "c", "d", "e", "f", "A", "B", "C", "D", "E", "F"}
HexBits(c) ==
  CASE c \in {"0"} -> <<"0","0","0","0">> []
    c \in {"1"} -> <<"0","0","0","1">> []
    c \in {"2"} -> <<"0","0","1","0">> []
    c \in {"3"} -> <<"0","0","1","1">> []
    c \in {"4"} -> <<"0","1","0","0">> []
    c \in {"5"} -> <<"0","1","0","1">> []
    c \in {"6"} -> <<"0","1","1","0">> []
    c \in {"7"} -> <<"0","1","1","1">> []
    c \in {"8"} -> <<"1","0","0","0">> []
    c \in {"9"} -> <<"1","0","0","1">> []
    c \in {"A", "a"} -> <<"1","0","1","0">> []
    c \in {"B", "b"} -> <<"1","0","1","1">> []
    c \in {"C", "c"} -> <<"1","1","0","0">> []
    c \in {"D", "d"} -> <<"1","1","0","1">> []
    c \in {"E", "e"} -> <<"1","1","1","0">> []
    c \in {"F", "f"} -> <<"1","1","1","1">>

\* The characters of an n-char-sequence in nan(...): letters, digits, _.
Letters ==
  {"a", "b", "c", "d", "e", "f", "g", "h", "i", "j", "k", "l", "m",
   "n", "o", "p", "q", "r", "s", "t", "u", "v", "w", "x", "y", "z"}
  \cup
  {"A", "B", "C", "D", "E", "F", "G", "H", "I", "J", "K", "L", "M",
   "N", "O", "P", "Q", "R", "S", "T", "U", "V", "W", "X", "Y", "Z"}
NanChars == Digits \cup Letters \cup {"_"}

\* isspace in the C locale: space, \t, \n, \v, \f, \r.
VT == ""
WhiteSpace == {" ", "\t", "\n", VT, "\f", "\r"}

\* The words strtod accepts besides numbers, in either case of each letter.
INF_WORD == <<{"i", "I"}, {"n", "N"}, {"f", "F"}>>
INFINITY_WORD ==
  INF_WORD \o <<{"i", "I"}, {"n", "N"}, {"i", "I"}, {"t", "T"}, {"y", "Y"}>>
NAN_WORD == <<{"n", "N"}, {"a", "A"}, {"n", "N"}>>

\* ULLONG_MAX, and the digits of base 8.
ULLONG_MAX_DIGITS ==
  <<"1","8","4","4","6","7","4","4","0","7","3","7","0","9","5","5","1","6","1","5">>
OctDigits == {"0", "1", "2", "3", "4", "5", "6", "7"}

\* LLONG_MAX and the magnitude of LLONG_MIN.
LLONG_MAX_DIGITS ==
  <<"9","2","2","3","3","7","2","0","3","6","8","5","4","7","7","5","8","0","7">>
LLONG_MIN_DIGITS ==
  <<"9","2","2","3","3","7","2","0","3","6","8","5","4","7","7","5","8","0","8">>

\* The format of double (float.h): 53 bits of significand, values below
\* 2^1024, least normal value 2^-1022 (about 2.2e-308).
DBL_MANT_DIG == 53
DBL_MAX_EXP == 1024
DBL_MIN_EXP == -1021
DBL_MIN_10_EXP == -307
DBL_MAX_10_EXP == 308
ERANGE == 34

\* 2^1024 - 2^970, halfway between DBL_MAX and 2^1024: the least value that
\* strtod rounds (to nearest, ties to even) out of the range of double.
DBL_OVERFLOW_DIGITS ==
  <<"1","7","9","7","6","9","3","1","3","4","8","6","2","3","1","5","8","0","7",
    "9","3","7","2","8","9","7","1","4","0","5","3","0","3","4","1","5","0","7",
    "9","9","3","4","1","3","2","7","1","0","0","3","7","8","2","6","9","3","6",
    "1","7","3","7","7","8","9","8","0","4","4","4","9","6","8","2","9","2","7",
    "6","4","7","5","0","9","4","6","6","4","9","0","1","7","9","7","7","5","8",
    "7","2","0","7","0","9","6","3","3","0","2","8","6","4","1","6","6","9","2",
    "8","8","7","9","1","0","9","4","6","5","5","5","5","4","7","8","5","1","9",
    "4","0","4","0","2","6","3","0","6","5","7","4","8","8","6","7","1","5","0",
    "5","8","2","0","6","8","1","9","0","8","9","0","2","0","0","0","7","0","8",
    "3","8","3","6","7","6","2","7","3","8","5","4","8","4","5","8","1","7","7",
    "1","1","5","3","1","7","6","4","4","7","5","7","3","0","2","7","0","0","6",
    "9","8","5","5","5","7","1","3","6","6","9","5","9","6","2","2","8","4","2",
    "9","1","4","8","1","9","8","6","0","8","3","4","9","3","6","4","7","5","2",
    "9","2","7","1","9","0","7","4","1","6","8","4","4","4","3","6","5","5","1",
    "0","7","0","4","3","4","2","7","1","1","5","5","9","6","9","9","5","0","8",
    "0","9","3","0","4","2","8","8","0","1","7","7","9","0","4","1","7","4","4",
    "9","7","7","9","2">>

\* The digits d of 2^-1022 - 2^-1076 = 0.d * 10^-307, the least value that
\* rounded to 53 bits is the least normal double: below it the result of
\* strtod is tiny.
DBL_TINY_DIGITS ==
  <<"2","2","2","5","0","7","3","8","5","8","5","0","7","2","0","1","2","5","9",
    "5","7","3","8","2","1","2","5","7","0","2","0","7","6","8","0","2","0","0",
    "7","7","0","1","7","7","6","3","4","0","6","9","8","8","7","3","9","2","8",
    "8","3","7","6","7","6","3","3","0","6","0","1","3","3","2","8","4","1","7",
    "4","9","7","5","7","0","6","8","5","4","0","6","3","4","1","4","6","0","3",
    "2","3","0","5","4","2","3","9","1","0","8","2","4","9","3","2","2","0","3",
    "7","7","1","6","0","5","6","0","1","1","2","6","0","3","0","0","1","2","4",
    "0","2","7","3","7","7","1","9","1","8","3","4","7","9","6","3","9","2","7",
    "6","9","7","2","1","4","3","7","0","7","8","9","9","0","8","3","6","5","3",
    "2","7","9","8","9","0","4","4","3","1","8","4","9","8","6","4","7","3","2",
    "5","0","4","1","1","0","4","6","7","2","7","3","0","8","4","6","9","6","9",
    "7","7","8","1","2","0","2","8","7","1","6","2","3","6","5","5","6","9","6",
    "7","9","3","5","8","9","5","6","5","7","3","5","1","8","6","8","2","0","2",
    "7","8","8","7","2","2","4","9","4","8","1","1","5","3","0","1","5","1","3",
    "1","7","6","1","6","3","6","6","3","3","3","2","9","6","9","4","5","9","5",
    "3","4","3","1","3","6","9","2","2","2","1","9","0","3","0","8","0","5","3",
    "7","8","7","6","9","4","9","4","0","4","1","1","7","4","3","7","0","7","8",
    "0","9","8","2","2","5","8","0","7","4","0","9","8","8","8","8","0","5","5",
    "1","6","1","7","9","0","7","1","1","9","0","0","2","1","4","8","7","5","9",
    "4","0","1","9","1","5","8","9","2","1","5","1","4","8","2","0","8","1","9",
    "2","4","8","9","0","2","6","3","3","1","2","7","0","2","2","5","7","3","2",
    "1","1","8","4","7","5","0","7","7","1","8","6","1","4","5","2","2","2","4",
    "0","9","6","2","1","2","6","3","1","6","9","8","6","2","3","6","3","8","7",
    "7","6","8","6","0","1","4","1","8","3","8","0","6","1","1","6","5","7","0",
    "2","2","6","3","7","7","6","6","4","0","9","0","7","6","4","8","1","9","4",
    "4","3","5","5","3","6","0","5","4","3","3","6","3","7","3","7","2","7","9",
    "7","8","0","1","4","5","9","3","1","0","0","6","7","8","6","6","0","4","9",
    "2","1","1","7","5","1","6","7","8","4","9","0","8","5","2","1","5","1","1",
    "1","5","9","7","6","7","3","7","3","3","2","3","3","3","9","1","9","1","9",
    "8","3","2","2","1","3","2","6","8","5","3","5","1","9","1","2","8","3","3",
    "8","7","8","4","8","9","1","9","1","3","3","8","0","7","1","5","5","3","2",
    "8","4","0","9","7","1","0","0","3","8","7","8","9","9","3","6","2","7","2",
    "4","0","6","8","6","7","2","6","6","6","3","3","9","7","6","0","9","1","4",
    "9","8","3","4","3","4","9","8","3","1","3","4","4","8","7","9","6","7","6",
    "6","5","3","4","6","9","0","9","1","5","5","9","1","3","0","1","8","9","8",
    "9","9","1","1","4","5","2","1","1","2","4","7","8","2","3","8","0","5","4",
    "7","3","4","1","0","0","9","7","7","5","5","9","0","6","7","6","0","9","6",
    "2","9","1","5","8","5","9","4","9","6","9","7","7","4","3","0","1","8","9",
    "3","0","8","1","1","3","8","5","8","6","9","2","7","2","8","1","1","5","3",
    "2","9","3","7","3","3","9","5","0","7","0","4","3","3","6","1","6","6","3",
    "8","1","8","3","5","9","3","7","5">>

\* 2^53 and 2^54.
TWO_POW_53_DIGITS ==
  <<"9","0","0","7","1","9","9","2","5","4","7","4","0","9","9","2">>
TWO_POW_54_DIGITS ==
  <<"1","8","0","1","4","3","9","8","5","0","9","4","8","1","9","8","4">>

\* The first position from i on in s that holds no character of cs
\* (Len(s) + 1, the NUL, if there is none).
SkipIn(s, i, cs) ==
  IF i > Len(s) THEN i
  ELSE CHOOSE j \in i..(Len(s) + 1) :
         /\ j = Len(s) + 1 \/ s[j] \notin cs
         /\ \A m \in i..(j - 1) : s[m] \in cs

SkipSpace(s, i) == SkipIn(s, i, WhiteSpace)
SkipDigits(s, i) == SkipIn(s, i, Digits)
SkipHexDigits(s, i) == SkipIn(s, i, HexDigits)
SkipNanChars(s, i) == SkipIn(s, i, NanChars)

\* The word w is at position i of s.
Matches(s, i, w) ==
  /\ i + Len(w) - 1 <= Len(s)
  /\ \A j \in 1..Len(w) : s[i + j - 1] \in w[j]

\* d without its leading zeros.
StripZeros(d) == SubSeq(d, SkipIn(d, 1, {"0"}), Len(d))

\* The position of the last digit of d[1..i] that is not 0, or 0.
LastNonZero(d, i) ==
  CHOOSE j \in 0..i :
    /\ j = 0 \/ d[j] # "0"
    /\ \A m \in (j + 1)..i : d[m] = "0"

\* a > b as decimal fractions 0.a and 0.b (the shorter padded with zeros).
FracGreater(a, b) ==
  LET n == IF Len(a) > Len(b) THEN Len(a) ELSE Len(b)
      A(i) == IF i <= Len(a) THEN DigitVal(a[i]) ELSE 0
      B(i) == IF i <= Len(b) THEN DigitVal(b[i]) ELSE 0
      \* the first position where they differ
      m == CHOOSE j \in 1..(n + 1) :
             /\ j = n + 1 \/ A(j) # B(j)
             /\ \A i \in 1..(j - 1) : A(i) = B(i)
  IN  m <= n /\ A(m) > B(m)

\* a > b as natural numbers written without leading zeros.
NatGreater(a, b) ==
  \/ Len(a) > Len(b)
  \/ Len(a) = Len(b) /\ FracGreater(a, b)

\* Twice the natural number d.
Twice(d) ==
  LET body == [i \in 1..Len(d) |->
                 DigitChar((2 * DigitVal(d[i])
                            + (IF i < Len(d) /\ DigitVal(d[i + 1]) >= 5
                                 THEN 1 ELSE 0)) % 10)]
  IN  (IF d # <<>> /\ DigitVal(d[1]) >= 5 THEN <<"1">> ELSE <<>>) \o body

\* d / 5^k for a natural number d > 0, or <<>> when 5^k does not divide d:
\* d / 5 is 2 * d without its last digit, a 0.
RECURSIVE DivPow5(_, _)
DivPow5(d, k) ==
  IF d = <<>> \/ k = 0 THEN d
  ELSE IF k = 1
    THEN IF d[Len(d)] \notin {"0", "5"} THEN <<>>
         ELSE SubSeq(Twice(d), 1, Len(Twice(d)) - 1)
  ELSE LET h == DivPow5(d, k \div 2)
       IN  IF h = <<>> THEN <<>> ELSE DivPow5(h, k - (k \div 2))

\* The bits of a sequence of hexadecimal digits.
HexToBits(h) ==
  SubSeq([i \in 1..(4 * Len(h)) |->
            HexBits(h[(i + 3) \div 4])[((i - 1) % 4) + 1]],
         1, 4 * Len(h))

\* The value of an exponent's digits d, added to acc digit by digit, taken
\* at its value up to limit. The C library derives limit from the number
\* of digits of the significand: an exponent beyond it puts the value out
\* of range whatever the digits are, and is read as limit + 1.
RECURSIVE ExpVal(_, _, _)
ExpVal(d, acc, limit) ==
  IF d = <<>> THEN acc
  ELSE IF \/ acc > limit \div 10
          \/ acc = limit \div 10 /\ DigitVal(Head(d)) > limit % 10
    THEN limit + 1
  ELSE ExpVal(Tail(d), 10 * acc + DigitVal(Head(d)), limit)

\* strtoll(s, &endptr, 10): endptr as a position, errno, and the value as
\* sign and magnitude digits (clamped on overflow).
strtoll(s) ==
  LET i0 == SkipSpace(s, 1)
      neg == i0 <= Len(s) /\ s[i0] = "-"
      i1 == IF i0 <= Len(s) /\ s[i0] \in {"+", "-"} THEN i0 + 1 ELSE i0
      i2 == SkipDigits(s, i1)
      mag == StripZeros(SubSeq(s, i1, i2 - 1))
      lim == IF neg THEN LLONG_MIN_DIGITS ELSE LLONG_MAX_DIGITS
  IN  IF i2 = i1
        THEN [endptr |-> 1, errno |-> 0, neg |-> FALSE, mag |-> <<>>]
      ELSE IF NatGreater(mag, lim)
        THEN [endptr |-> i2, errno |-> ERANGE, neg |-> neg, mag |-> lim]
      ELSE [endptr |-> i2, errno |-> 0, neg |-> neg, mag |-> mag]

\* strtod on the decimal number at position i1 (after white space and
\* sign). errno is ERANGE when the value rounds out of range (it is at
\* least 2^1024 - 2^970), and when the result is tiny and inexact: the value
\* is below 2^-1022 - 2^-1076 and no multiple of 2^-1074. The C library
\* also takes as exact a value in [2^-1023, 2^-1022) that is 2^-1076 above
\* a multiple of 2^-1074 (the bit below its 53 bits is not looked at).
strtod_decimal(s, i1) ==
  LET i2 == SkipDigits(s, i1)
      hasDot == i2 <= Len(s) /\ s[i2] = "."
      i3 == IF hasDot THEN SkipDigits(s, i2 + 1) ELSE i2
      int == SubSeq(s, i1, i2 - 1)
      frac == IF hasDot THEN SubSeq(s, i2 + 1, i3 - 1) ELSE <<>>
      hasE == i3 <= Len(s) /\ s[i3] \in {"e", "E"}
      j1 == IF hasE /\ i3 + 1 <= Len(s) /\ s[i3 + 1] \in {"+", "-"}
              THEN i3 + 2 ELSE i3 + 1
      j2 == IF hasE THEN SkipDigits(s, j1) ELSE j1
      hasExp == hasE /\ j2 > j1
      eneg == hasExp /\ s[i3 + 1] = "-"
      sig == StripZeros(int \o frac)
      \* the digits before the point after its leading zeros, and the
      \* zeros that follow the point when there are none
      int_no == Len(StripZeros(int))
      lead_zero == Len(frac) - Len(StripZeros(frac))
      exp_limit ==
        IF eneg THEN DBL_MANT_DIG - DBL_MIN_10_EXP + int_no
        ELSE IF int_no > 0
          THEN (IF DBL_MAX_10_EXP - int_no + 1 < 0 THEN 0
                ELSE DBL_MAX_10_EXP - int_no + 1)
        ELSE IF sig = <<>> THEN DBL_MAX_10_EXP + 3
        ELSE lead_zero + DBL_MAX_10_EXP + 1
      e == IF hasExp
             THEN (IF eneg THEN -1 ELSE 1)
                  * ExpVal(StripZeros(SubSeq(s, j1, j2 - 1)), 0, exp_limit)
             ELSE 0
      \* the value is 0.sig * 10^p
      p == Len(int) - (Len(int \o frac) - Len(sig)) + e
      over == \/ p > Len(DBL_OVERFLOW_DIGITS)
              \/ /\ p = Len(DBL_OVERFLOW_DIGITS)
                 /\ ~FracGreater(DBL_OVERFLOW_DIGITS, sig)
      tiny == \/ p < DBL_MIN_10_EXP
              \/ p = DBL_MIN_10_EXP /\ FracGreater(DBL_TINY_DIGITS, sig)
      \* the value is D * 10^-k, D without trailing zeros, and, if 5^k
      \* divides D, q * 2^-k with q odd
      D == SubSeq(sig, 1, LastNonZero(sig, Len(sig)))
      k == Len(D) - p
      grid == DBL_MANT_DIG - DBL_MIN_EXP
      q == IF k > 0 /\ k <= grid + 2 THEN DivPow5(D, k) ELSE <<>>
      exact ==
        /\ q # <<>>
        /\ \/ k <= grid
           \/ /\ k = grid + 2
              /\ ~NatGreater(TWO_POW_53_DIGITS, q)
              /\ NatGreater(TWO_POW_54_DIGITS, q)
              /\ (10 * DigitVal(q[Len(q) - 1]) + DigitVal(q[Len(q)])) % 4 = 1
  IN  [endptr |-> IF hasExp THEN j2 ELSE i3,
       errno |-> IF sig # <<>> /\ (over \/ (tiny /\ ~exact))
                   THEN ERANGE ELSE 0]

\* strtod on the hexadecimal number whose prefix 0x is at position i1.
\* Without a hexadecimal digit after the prefix only the 0 is converted.
\* The value is 0.b * 2^P for the bits b after the leading zeros; the
\* range is tested as for a decimal number, but a tiny result counts as
\* exact also when bit 54 of b is set (it is not looked at).
strtod_hex(s, i1) ==
  LET i2 == SkipHexDigits(s, i1 + 2)
      hasDot == i2 <= Len(s) /\ s[i2] = "."
      i3 == IF hasDot THEN SkipHexDigits(s, i2 + 1) ELSE i2
      int == SubSeq(s, i1 + 2, i2 - 1)
      frac == IF hasDot THEN SubSeq(s, i2 + 1, i3 - 1) ELSE <<>>
      hasP == i3 <= Len(s) /\ s[i3] \in {"p", "P"}
      j1 == IF hasP /\ i3 + 1 <= Len(s) /\ s[i3 + 1] \in {"+", "-"}
              THEN i3 + 2 ELSE i3 + 1
      j2 == IF hasP THEN SkipDigits(s, j1) ELSE j1
      hasExp == hasP /\ j2 > j1
      eneg == hasExp /\ s[i3 + 1] = "-"
      bits == HexToBits(int \o frac)
      b == StripZeros(bits)
      \* the hexadecimal digits before the point after its leading zeros,
      \* and the zeros that follow the point when there are none
      int_no == Len(StripZeros(int))
      lead_zero == Len(frac) - Len(StripZeros(frac))
      exp_limit ==
        IF eneg THEN DBL_MANT_DIG - DBL_MIN_EXP + 4 * int_no
        ELSE IF int_no > 0
          THEN (IF DBL_MAX_EXP - 4 * int_no + 3 < 0 THEN 0
                ELSE DBL_MAX_EXP - 4 * int_no + 3)
        ELSE IF b = <<>> THEN DBL_MAX_EXP + 3
        ELSE 4 * lead_zero + DBL_MAX_EXP + 3
      e == IF hasExp
             THEN (IF eneg THEN -1 ELSE 1)
                  * ExpVal(StripZeros(SubSeq(s, j1, j2 - 1)), 0, exp_limit)
             ELSE 0
      P == 4 * Len(int) - (Len(bits) - Len(b)) + e
      \* the first n bits of b are at 2^-1074 or above
      n == P + DBL_MANT_DIG - DBL_MIN_EXP
      ones == /\ Len(b) > DBL_MANT_DIG
              /\ \A i \in 1..(DBL_MANT_DIG + 1) : b[i] = "1"
      over == P > DBL_MAX_EXP \/ (P = DBL_MAX_EXP /\ ones)
      tiny == P < DBL_MIN_EXP - 1 \/ (P = DBL_MIN_EXP - 1 /\ ~ones)
      exact == \A i \in 1..Len(b) :
                 (i > n /\ i # DBL_MANT_DIG + 1) => b[i] = "0"
  IN  IF int = <<>> /\ frac = <<>>
        THEN [endptr |-> i1 + 1, errno |-> 0]
      ELSE [endptr |-> IF hasExp THEN j2 ELSE i3,
            errno |-> IF b # <<>> /\ (over \/ (tiny /\ ~exact))
                        THEN ERANGE ELSE 0]

\* The number that strtod reads from the n-char-sequence w of nan(w), as
\* strtoull (w, &endp, 0) does: hexadecimal after 0x, octal after 0,
\* decimal otherwise, up to the first character that is no digit of the
\* base. errno is ERANGE when the number is above ULLONG_MAX (64 bits).
strtod_nan(w) ==
  LET isHex == /\ Len(w) >= 3 /\ w[1] = "0" /\ w[2] \in {"x", "X"}
               /\ w[3] \in HexDigits
      isOct == ~isHex /\ w # <<>> /\ w[1] = "0"
      mag == IF isHex THEN StripZeros(SubSeq(w, 3, SkipHexDigits(w, 3) - 1))
             ELSE IF isOct THEN StripZeros(SubSeq(w, 1, SkipIn(w, 1, OctDigits) - 1))
             ELSE StripZeros(SubSeq(w, 1, SkipDigits(w, 1) - 1))
      over == IF isHex THEN Len(mag) > 16
              ELSE IF isOct THEN Len(mag) > 22 \/ (Len(mag) = 22 /\ mag[1] # "1")
              ELSE NatGreater(mag, ULLONG_MAX_DIGITS)
  IN  [errno |-> IF over THEN ERANGE ELSE 0]

\* strtod(s, &endptr): endptr as a position and errno. After white space
\* and a sign it converts a hexadecimal number, a decimal number,
\* infinity, inf, or nan with an optional (n-char-sequence); anything else
\* is no conversion, with endptr at the start.
strtod(s) ==
  LET i0 == SkipSpace(s, 1)
      i1 == IF i0 <= Len(s) /\ s[i0] \in {"+", "-"} THEN i0 + 1 ELSE i0
      isHex == i1 + 1 <= Len(s) /\ s[i1] = "0" /\ s[i1 + 1] \in {"x", "X"}
      isDec == \/ i1 <= Len(s) /\ s[i1] \in Digits
               \/ i1 + 1 <= Len(s) /\ s[i1] = "." /\ s[i1 + 1] \in Digits
      close == SkipNanChars(s, i1 + 4)
  IN  IF isHex THEN strtod_hex(s, i1)
      ELSE IF isDec THEN strtod_decimal(s, i1)
      ELSE IF Matches(s, i1, INFINITY_WORD)
        THEN [endptr |-> i1 + Len(INFINITY_WORD), errno |-> 0]
      ELSE IF Matches(s, i1, INF_WORD)
        THEN [endptr |-> i1 + Len(INF_WORD), errno |-> 0]
      ELSE IF Matches(s, i1, NAN_WORD)
        THEN IF /\ i1 + 3 <= Len(s) /\ s[i1 + 3] = "("
                /\ close <= Len(s) /\ s[close] = ")"
               THEN [endptr |-> close + 1,
                     errno |-> strtod_nan(SubSeq(s, i1 + 4, close - 1)).errno]
               ELSE [endptr |-> i1 + Len(NAN_WORD), errno |-> 0]
      ELSE [endptr |-> 1, errno |-> 0]

\* *endptr == 0: endptr is at the terminating NUL.
AtNul(s, endptr) == endptr = Len(s) + 1

\* The flags handle_number derives from the copied literal.
NumberFlags(raw) ==
  (IF strtoll(raw).errno = 0 /\ AtNul(raw, strtoll(raw).endptr)
     THEN {"YAJL_NUMBER_INT_VALID"} ELSE {})
  \cup
  (IF strtod(raw).errno = 0 /\ AtNul(raw, strtod(raw).endptr)
     THEN {"YAJL_NUMBER_DOUBLE_VALID"} ELSE {})

\* ---------------------------------------------------- event handlers
\* The event source can deliver an event while the parse is running.
Delivers(ev, arg) ==
  /\ pc = "parsing"
  /\ remaining > 0
  /\ remaining' = remaining - 1
  /\ ndebug' = ndebug

\* value_alloc failed: nothing was allocated, the handler aborts.
NoValue(ev, arg) ==
  /\ last' = [ev |-> ev, arg |-> arg, depth |-> Len(stack), v |-> NULL]
  /\ Return(heap, live, stack, root, routed, STATUS_ABORT, ENOMEM)

Made(ev, arg, v) ==
  last' = [ev |-> ev, arg |-> arg, depth |-> Len(stack), v |-> v]

handle_null ==
  /\ Delivers("null", <<>>)
  /\ \E ok \in AllocOutcomes :
       IF ~ok THEN NoValue("null", <<>>)
       ELSE LET v == Len(heap) + 1 IN
            /\ Made("null", <<>>, v)
            /\ context_add_value(Append(heap, value_alloc("null")),
                                 live \cup {<<"value", v>>}, stack, v)

handle_boolean(boolean_value) ==
  /\ Delivers("boolean", <<boolean_value>>)
  /\ \E ok \in AllocOutcomes :
       IF ~ok THEN NoValue("boolean", <<boolean_value>>)
       ELSE LET v == Len(heap) + 1 IN
            /\ Made("boolean", <<boolean_value>>, v)
            /\ context_add_value(
                 Append(heap, value_alloc(IF boolean_value THEN "true" ELSE "false")),
                 live \cup {<<"value", v>>}, stack, v)

handle_string(string) ==
  /\ Delivers("string", <<string>>)
  /\ \E ok \in AllocOutcomes :
       IF ~ok THEN NoValue("string", <<string>>)
       ELSE
         LET v == Len(heap) + 1
             h1 == Append(heap, value_alloc("string"))
         IN
         /\ Made("string", <<string>>, v)
         /\ \E ok2 \in AllocOutcomes :
              IF ~ok2
                THEN Return(h1, live, stack, root, routed, STATUS_ABORT, ENOMEM)
                ELSE context_add_value([h1 EXCEPT ![v].value = <<string>>],
                                       live \cup {<<"value", v>>, <<"buf", v>>},
                                       stack, v)

handle_number(string) ==
  /\ Delivers("number", <<string>>)
  /\ \E ok \in AllocOutcomes :
       IF ~ok THEN NoValue("number", <<string>>)
       ELSE
         LET v == Len(heap) + 1
             h1 == Append(heap, value_alloc("string"))
             l1 == live \cup {<<"value", v>>}
             \* n = YAJL_TO_NUMBER (v)
             n == IF YAJL_IS_NUMBER(h1, v) THEN v ELSE NULL
         IN
         /\ Made("number", <<string>>, v)
         /\ \E deref \in (IF n = NULL THEN NullDerefOutcomes ELSE {"store"}) :
              \E ok2 \in AllocOutcomes :
                IF deref = "trap"
                  THEN Crash(h1, IF ok2 THEN l1 \cup {<<"buf", v>>} ELSE l1,
                             stack, routed)
                ELSE IF ~ok2
                  THEN Return(h1, live, stack, root, routed, STATUS_ABORT, ENOMEM)
                \* the stores through n: with n NULL they reach no value
                ELSE context_add_value(
                       IF n = NULL THEN h1
                       ELSE [h1 EXCEPT ![n].value_raw = <<string>>,
                                       ![n].value_int = [neg |-> strtoll(string).neg,
                                                         mag |-> strtoll(string).mag],
                                       ![n].flags = NumberFlags(string)],
                       l1 \cup {<<"buf", v>>}, stack, v)

handle_start_map ==
  /\ Delivers("start_map", <<>>)
  /\ \E ok \in AllocOutcomes :
       IF ~ok THEN NoValue("start_map", <<>>)
       ELSE LET v == Len(heap) + 1 IN
            /\ Made("start_map", <<>>, v)
            /\ context_push(Append(heap, value_alloc("object")),
                            live \cup {<<"value", v>>}, stack, v)

handle_start_array ==
  /\ Delivers("start_array", <<>>)
  /\ \E ok \in AllocOutcomes :
       IF ~ok THEN NoValue("start_array", <<>>)
       ELSE LET v == Len(heap) + 1 IN
            /\ Made("start_array", <<>>, v)
            /\ context_push(Append(heap, value_alloc("array")),
                            live \cup {<<"value", v>>}, stack, v)

\* An end handler without the check of context_pop's result.
HandleEnd_NoNullCheck(ev) ==
  LET p == context_pop(stack, live) IN
  /\ last' = [ev |-> ev, arg |-> <<>>, depth |-> Len(stack), v |-> p.v]
  /\ context_add_value(heap, p.live, p.stack, p.v)

\* Both end handlers: context_pop, then context_add_value of the popped
\* value; a NULL from context_pop aborts.
HandleEnd(ev) ==
  LET p == context_pop(stack, live) IN
  /\ last' = [ev |-> ev, arg |-> <<>>, depth |-> Len(stack), v |-> p.v]
  /\ IF p.v = NULL
       THEN Return(heap, live, stack, root, routed, STATUS_ABORT, 0)
       ELSE context_add_value(heap, p.live, p.stack, p.v)

handle_end_map ==
  /\ Delivers("end_map", <<>>)
  /\ HandleEnd("end_map")

\* An end-array handler that rejects a top frame that is not an array.
handle_end_array_ChecksKind ==
  /\ Delivers("end_array", <<>>)
  /\ IF stack # <<>> /\ ~YAJL_IS_ARRAY(heap, stack[1].value)
       THEN /\ last' = [ev |-> "end_array", arg |-> <<>>,
                        depth |-> Len(stack), v |-> stack[1].value]
            /\ Return(heap, live, stack, root, routed, STATUS_ABORT, EINVAL)
       ELSE HandleEnd("end_array")

handle_end_array ==
  /\ Delivers("end_array", <<>>)
  /\ HandleEnd("end_array")

\* ------------------------------------------------------ entry point
\* yajl_parse reports a syntax failure: yajl_tree_parse returns NULL.
SyntaxFailure ==
  /\ pc = "parsing"
  /\ pc' = "returned"
  /\ result' = NULL
  /\ last' = [ev |-> "syntax_error", arg |-> <<>>, depth |-> Len(stack), v |-> NULL]
  /\ UNCHANGED <<heap, live, stack, root, status, err, ndebug, remaining, routed, freed>>

\* An end of input that returns the outermost open container when no root
\* has been stored.
ParseComplete_ReturnsOpenFrame ==
  /\ pc = "parsing"
  /\ pc' = "returned"
  /\ \E st \in TokenizerStatuses :
       /\ last' = [ev |-> "complete", arg |-> <<st>>, depth |-> Len(stack), v |-> NULL]
       /\ IF st # "ok"
            THEN result' = NULL /\ live' = live
            ELSE /\ result' = IF root = NULL /\ stack # <<>>
                                THEN stack[Len(stack)].value ELSE root
                 /\ live' = live \ {<<"handle", 0>>}
  /\ UNCHANGED <<heap, stack, root, status, err, ndebug, remaining, routed, freed>>

\* End of input: yajl_parse_complete, then yajl_free and return ctx.root.
ParseComplete ==
  /\ pc = "parsing"
  /\ pc' = "returned"
  /\ \E st \in TokenizerStatuses :
       /\ last' = [ev |-> "complete", arg |-> <<st>>, depth |-> Len(stack), v |-> NULL]
       /\ IF st # "ok"
            THEN result' = NULL /\ live' = live
            ELSE result' = root /\ live' = live \ {<<"handle", 0>>}
  /\ UNCHANGED <<heap, stack, root, status, err, ndebug, remaining, routed, freed>>

\* ------------------------------------------------- tree destruction
\* The calls of free that yajl_tree_free (v) makes, in order, each named by
\* the block it is given.  A keys, values or children pointer is NULL (and
\* free of it does nothing) until the first realloc for it has succeeded.
\* The buffer of a value built by handle_number under the STRING tag is
\* reached through s->value, which shares its place in the union with
\* n->value_raw.
RECURSIVE yajl_tree_free(_, _, _)
RECURSIVE yajl_object_free_from(_, _, _, _)
RECURSIVE yajl_array_free_from(_, _, _, _)

\* The loop of yajl_object_free from index i on.
yajl_object_free_from(h, l, v, i) ==
  IF i > Len(h[v].keys) THEN <<>>
  ELSE yajl_tree_free(h, l, h[v].keys[i])
       \o yajl_tree_free(h, l, h[v].values[i])
       \o yajl_object_free_from(h, l, v, i + 1)

yajl_object_free(h, l, v) ==
  IF ~YAJL_IS_OBJECT(h, v) THEN <<>>
  ELSE yajl_object_free_from(h, l, v, 1)
       \o (IF <<"keys", v>> \in l THEN <<<<"keys", v>>>> ELSE <<>>)
       \o (IF <<"values", v>> \in l THEN <<<<"values", v>>>> ELSE <<>>)
       \o <<<<"value", v>>>>

\* The loop of yajl_array_free from index i on.
yajl_array_free_from(h, l, v, i) ==
  IF i > Len(h[v].children) THEN <<>>
  ELSE yajl_tree_free(h, l, h[v].children[i])
       \o yajl_array_free_from(h, l, v, i + 1)

yajl_array_free(h, l, v) ==
  IF ~YAJL_IS_ARRAY(h, v) THEN <<>>
  ELSE yajl_array_free_from(h, l, v, 1)
       \o (IF <<"children", v>> \in l THEN <<<<"children", v>>>> ELSE <<>>)
       \o <<<<"value", v>>>>

yajl_tree_free(h, l, v) ==
  IF v = NULL THEN <<>>
  ELSE IF YAJL_IS_STRING(h, v)
    THEN (IF h[v].value # <<>> THEN <<<<"buf", v>>>> ELSE <<>>)
         \o <<<<"value", v>>>>
  ELSE IF YAJL_IS_NUMBER(h, v)
    THEN (IF h[v].value_raw # <<>> THEN <<<<"buf", v>>>> ELSE <<>>)
         \o <<<<"value", v>>>>
  ELSE IF YAJL_IS_OBJECT(h, v) THEN yajl_object_free(h, l, v)
  ELSE IF YAJL_IS_ARRAY(h, v) THEN yajl_array_free(h, l, v)
  ELSE <<<<"value", v>>>>

\* Some call frees a block that is not allocated at that moment.
FreesUnallocated(l, calls) ==
  \E i \in 1..Len(calls) :
    \/ calls[i] \notin l
    \/ \E j \in 1..(i - 1) : calls[j] = calls[i]

\* The caller destroys the tree that yajl_tree_parse returned.  Freeing a
\* block that is not allocated is undefined: the process may crash or go on.
TreeFree ==
  /\ pc = "returned"
  /\ result # NULL
  /\ LET calls == yajl_tree_free(heap, live, result) IN
       /\ freed' = calls
       /\ live' = live \ {calls[i] : i \in 1..Len(calls)}
       /\ pc' \in (IF FreesUnallocated(live, calls)
                     THEN {"freed", "crashed"} ELSE {"freed"})
  /\ last' = [ev |-> "free", arg |-> <<>>, depth |-> Len(stack), v |-> result]
  /\ UNCHANGED <<heap, stack, root, result, status, err, ndebug, remaining, routed>>

\* The state yajl_tree_parse builds before the tokenizer runs.
InitWith(n) ==
  /\ heap = <<>>
  /\ live = {<<"handle", 0>>}
  /\ stack = <<>>
  /\ root = NULL
  /\ pc = "parsing"
  /\ result = NULL
  /\ status = STATUS_CONTINUE
  /\ err = 0
  /\ ndebug \in BOOLEAN
  /\ remaining = n
  /\ routed = <<>>
  /\ freed = <<>>
  /\ last = [ev |-> "none", arg |-> <<>>, depth |-> 0, v |-> NULL]

Init == InitWith(MaxEvents)

Next ==
  \/ handle_null
  \/ \E b \in BOOLEAN : handle_boolean(b)
  \/ \E s \in Strings : handle_string(s)
  \/ \E n \in Literals : handle_number(n)
  \/ handle_start_map
  \/ handle_end_map
  \/ handle_start_array
  \/ handle_end_array
  \/ SyntaxFailure
  \/ ParseComplete

Spec == Init /\ [][Next]_vars

\* An event source of documents made of containers, strings, numbers and
\* null, whose caller destroys the tree it gets.
InitTree == InitWith(MaxTreeEvents)

NextTree ==
  \/ handle_null
  \/ \E s \in Strings : handle_string(s)
  \/ \E n \in Literals : handle_number(n)
  \/ handle_start_map
  \/ handle_end_map
  \/ handle_start_array
  \/ handle_end_array
  \/ ParseComplete
  \/ TreeFree

SpecTree == InitTree /\ [][NextTree]_vars

\* An event source that delivers only the events of a flat or nested
\* object whose keys are strings and whose other values are null.
InitObj == InitWith(MaxObjEvents)

NextObj ==
  \/ handle_start_map
  \/ \E s \in Strings : handle_string(s)
  \/ handle_null
  \/ handle_end_map
  \/ ParseComplete

SpecObj == InitObj /\ [][NextObj]_vars

\* An event source that delivers one number event, drawn from a pool of
\* literals: every text up to MaxLitLen over LitAlphabet (the empty text
\* is one: string_length may be 0), and the
\* literals at the edges of the integer and floating ranges and of the
\* forms that strtod accepts.
LitAlphabet == {" ", "\t", "-", "+", "0", "1", "9", ".", "e", "x", ","}

Nines20 ==
  <<"9","9","9","9","9","9","9","9","9","9","9","9","9","9","9","9","9","9","9","9">>

EdgeLiterals ==
  { Nines20, <<"-">> \o Nines20,
    LLONG_MAX_DIGITS, LLONG_MIN_DIGITS,
    <<"-">> \o LLONG_MAX_DIGITS, <<"-">> \o LLONG_MIN_DIGITS,
    <<"0">> \o LLONG_MAX_DIGITS, <<"-", "0">> \o LLONG_MIN_DIGITS,
    <<"1", "0">>, <<"1", "0", ".", "5">>,
    <<"1", "e", "3", "0", "8">>, <<"1", "e", "9", "9", "9">>,
    <<"1", "e", "-", "9", "9", "9">>, <<"0", "e", "9", "9", "9">>,
    \* rounds to DBL_MAX; the least value out of range
    <<"1", ".", "7", "9", "7", "6", "9", "3", "1", "3", "4", "8", "6", "2", "3", "1", "5", "8", "e", "3", "0", "8">>,
    DBL_OVERFLOW_DIGITS,
    \* rounds to the least normal double; tiny and inexact
    <<"2", ".", "2", "2", "5", "0", "7", "3", "8", "5", "8", "5", "0", "7", "2", "0", "1", "3", "e", "-", "3", "0", "8">>,
    <<"2", ".", "2", "2", "5", "0", "7", "3", "8", "5", "8", "5", "0", "7", "2", "0", "1", "2", "e", "-", "3", "0", "8">>,
    <<"5", "e", "-", "3", "2", "4">>,
    \* hexadecimal: exact and inexact subnormal, out of range
    <<"0", "x", "1", "0">>, <<"0", "x", "1", "p", "-", "1", "0", "7", "4">>,
    <<"0", "x", "1", ".", "8", "p", "-", "1", "0", "7", "4">>, <<"0", "x", "1", "p", "1", "0", "2", "4">>,
    \* white space before the number; words
    <<"\t", "1">>, <<" ", "\n", "-", "1", ".", "5">>, <<"i", "n", "f">>,
    <<"I", "n", "f", "i", "n", "i", "t", "y">>, <<"n", "a", "n">>,
    <<"n", "a", "n", "(", "1", ")">> }

LiteralPool ==
  EdgeLiterals \cup UNION {[1..n -> LitAlphabet] : n \in 0..MaxLitLen}

InitNum == InitWith(1)

NextNum ==
  \/ \E n \in LiteralPool : handle_number(n)
  \/ ParseComplete

SpecNum == InitNum /\ [][NextNum]_vars

\* ------------------------------------------------------------ claims
\* Blocks of the tree under construction that are still allocated: values,
\* string and number buffers, stack elements, key/value/child arrays.
Outstanding == {b \in live : b[1] # "handle"}

\* yajl_tree_parse has returned NULL because of a failure.
ParseFailed ==
  /\ pc = "returned"
  /\ \/ status = STATUS_ABORT
     \/ last.ev = "syntax_error"
     \/ last.ev = "complete" /\ last.arg = <<"error">>

EndEvents == {"end_map", "end_array"}

\* C1: whenever yajl_tree_parse ends in failure (syntax failure, a handler
\* returning abort, failure at end of input), no value, buffer, array or
\* stack element allocated during the call is still allocated.
\* (Failures caused by a failed allocation are the subject of C2.)
C1_FailureFreesEverything ==
  (ParseFailed /\ err # ENOMEM) => Outstanding = {}

\* C2: when an allocation fails, the parse returns failure and nothing
\* allocated before the fault is still allocated.
C2_AllocFaultFreesEverything ==
  (pc = "returned" /\ status = STATUS_ABORT /\ err = ENOMEM)
    => (result = NULL /\ Outstanding = {})

\* C3: with an Object frame on top that has no pending key, routing a value
\* that does not come from a string event (a null, boolean or number leaf,
\* or a container just closed) makes the handler abort and leaves the
\* pending key empty.
C3_NonStringKeyAborts ==
  [][ /\ ( /\ pc = "parsing"
           /\ stack # <<>>
           /\ YAJL_IS_OBJECT(heap, stack[1].value)
           /\ stack[1].key = NULL
           /\ last'.ev \in {"null", "boolean", "number"}
           /\ <<"value", last'.v>> \in live' )
         => (status' = STATUS_ABORT /\ pc' = "returned" /\ stack' = stack)
      /\ ( /\ pc = "parsing"
           /\ Len(stack) >= 2
           /\ YAJL_IS_OBJECT(heap, stack[2].value)
           /\ stack[2].key = NULL
           /\ last'.ev \in EndEvents )
         => (status' = STATUS_ABORT /\ pc' = "returned" /\ stack' = Tail(stack))
    ]_vars

\* C4: when a value is routed with an empty stack and a root already
\* stored, the handler aborts and the stored root stays as it was.
C4_SecondRootAborts ==
  [][ ( /\ pc = "parsing"
        /\ root # NULL
        /\ \/ /\ stack = <<>>
              /\ last'.ev \in {"null", "boolean", "string"}
              /\ <<"value", last'.v>> \in live'
           \/ /\ Len(stack) = 1
              /\ last'.ev \in EndEvents )
      => (status' = STATUS_ABORT /\ pc' = "returned" /\ root' = root)
    ]_vars

\* C5: a parse that returns a tree ends with an empty frame stack; with a
\* frame still open at end of input it returns no tree.
C5_TreeOnlyWithEmptyStack ==
  (pc = "returned" /\ result # NULL) => stack = <<>>

\* C6: an end-object or end-array event received with an empty frame
\* stack makes the handler abort and changes neither stack nor root.
C6_UnmatchedCloseAborts ==
  [][ (pc = "parsing" /\ stack = <<>> /\ last'.ev \in EndEvents)
      => /\ status' = STATUS_ABORT
         /\ pc' = "returned"
         /\ result' = NULL
         /\ stack' = stack
         /\ root' = root
         /\ heap' = heap
         /\ live' = live
    ]_vars

\* An unmatched end-array arrived after a root had been stored.
C6_Witness ==
  /\ last.ev = "end_array"
  /\ last.depth = 0
  /\ root # NULL
  /\ status = STATUS_ABORT
  /\ pc = "returned"

Containers == {"object", "array"}

\* The frame holds an allocated container Value.
FrameHoldsContainer(h, l, f) ==
  /\ f.value # NULL
  /\ <<"value", f.value>> \in l
  /\ h[f.value].type \in Containers

\* C7: no allocated container Value belongs to a frame that is still
\* open (a container Value is allocated only by the close event of its
\* frame, so that none can be abandoned by an abort while it is open).
C7_NoContainerWhileOpen ==
  \A i \in 1..Len(stack) : ~FrameHoldsContainer(heap, live, stack[i])

\* C8: the Value a leaf event constructs has the kind of the event: Null,
\* Bool with the same b, String with the bytes, Number with the literal.
C8_LeafKinds ==
  (last.ev \in {"null", "boolean", "string", "number"} /\ <<"value", last.v>> \in live)
    => CASE last.ev = "null" -> heap[last.v].type = "null"
         [] last.ev = "boolean" ->
              heap[last.v].type = (IF last.arg[1] THEN "true" ELSE "false")
         [] last.ev = "string" ->
              heap[last.v].type = "string" /\ heap[last.v].value = last.arg
         [] last.ev = "number" ->
              heap[last.v].type = "number" /\ heap[last.v].value_raw = last.arg

\* The text is white space, an optional sign and one or more decimal
\* digits, and nothing else.
IsIntegerText(s) ==
  \E a \in 0..Len(s) : \E b \in 0..1 :
    /\ \A i \in 1..a : s[i] \in WhiteSpace
    /\ b = 1 => (a + 1 <= Len(s) /\ s[a + 1] \in {"+", "-"})
    /\ a + b < Len(s)
    /\ \A i \in (a + b + 1)..Len(s) : s[i] \in Digits

\* The digits of an integer text, and whether it is negative.
IntegerDigits(s) ==
  SubSeq(s, (CHOOSE i \in 1..Len(s) : \A j \in i..Len(s) : s[j] \in Digits
                                      /\ (i = 1 \/ s[i - 1] \notin Digits)),
         Len(s))
IntegerNegative(s) == \E i \in 1..Len(s) : s[i] = "-"

\* d, a digit sequence, denotes a number no greater than lim (19 digits).
AtMost(d, lim) ==
  LET z == CHOOSE k \in 0..Len(d) :
             /\ \A j \in 1..k : d[j] = "0"
             /\ (k = Len(d) \/ d[k + 1] # "0")
      m == SubSeq(d, z + 1, Len(d))
  IN  \/ Len(m) < Len(lim)
      \/ /\ Len(m) = Len(lim)
         /\ \/ m = lim
            \/ \E k \in 1..Len(m) :
                 /\ \A j \in 1..(k - 1) : m[j] = lim[j]
                 /\ DigitVal(m[k]) < DigitVal(lim[k])

\* The whole text is a base-10 integer in the signed 64-bit range.
IsInt64Text(s) ==
  /\ IsIntegerText(s)
  /\ AtMost(IntegerDigits(s),
            IF IntegerNegative(s) THEN LLONG_MIN_DIGITS ELSE LLONG_MAX_DIGITS)

\* C9: a number event whose allocations succeed builds a Number that
\* carries the literal verbatim, with the integer flag set exactly when the
\* whole literal is a base-10 integer in the signed 64-bit range, whatever
\* the double flag is; for 99999999999999999999 the integer flag is not
\* set.
C9_IntFlagIffInt64Text ==
  (last.ev = "number" /\ ~(status = STATUS_ABORT /\ err = ENOMEM))
    => /\ pc # "crashed"
       /\ <<"buf", last.v>> \in live
       /\ LET n == heap[last.v]
              lit == last.arg[1]
          IN  /\ n.value_raw = <<lit>>
              /\ n.flags \subseteq {"YAJL_NUMBER_INT_VALID", "YAJL_NUMBER_DOUBLE_VALID"}
              /\ ("YAJL_NUMBER_INT_VALID" \in n.flags) <=> IsInt64Text(lit)
              /\ lit = Nines20 => "YAJL_NUMBER_INT_VALID" \notin n.flags

\* The object is not held by any open frame.
Closed(o) == \A i \in 1..Len(stack) : stack[i].value # o

\* C10: a closed Object holds exactly the (key, value) pairs routed to its
\* frame, in arrival order, keys[i] with values[i]; nothing is merged or
\* overwritten, also when two keys have the same text.
C10_EntriesAreRoutedPairs ==
  \A o \in 1..Len(heap) :
    (heap[o].type = "object" /\ Closed(o))
      => LET r == routed[o]
             n == Len(r) \div 2
         IN  /\ Len(heap[o].keys) = n
             /\ Len(heap[o].values) = n
             /\ \A i \in 1..n : /\ heap[o].keys[i] = r[2 * i - 1]
                                /\ heap[o].values[i] = r[2 * i]

\* A closed object with two entries whose keys have the same text.
C10_Witness ==
  \E o \in 1..Len(heap) :
    /\ heap[o].type = "object"
    /\ Closed(o)
    /\ Len(heap[o].keys) = 2
    /\ heap[o].keys[1] # heap[o].keys[2]
    /\ heap[heap[o].keys[1]].value = heap[heap[o].keys[2]].value
    /\ heap[o].values[1] # heap[o].values[2]

\* ------------------------------------------- claims on whole trees
\* The children of a value: the keys and values of an object, the
\* children of an array.
ChildrenOf(h, v) ==
  {h[v].keys[i] : i \in 1..Len(h[v].keys)}
    \cup {h[v].values[i] : i \in 1..Len(h[v].values)}
    \cup {h[v].children[i] : i \in 1..Len(h[v].children)}

\* The values reachable from the values of S through children.
RECURSIVE ReachableFrom(_, _)
ReachableFrom(h, S) ==
  LET T == S \cup UNION {ChildrenOf(h, v) : v \in S}
  IN  IF T = S THEN S ELSE ReachableFrom(h, T)

\* The blocks allocated for a node besides those of its children: the
\* value, the buffer of a string or number, the arrays of a container.
BlocksOf(h, v) ==
  {<<"value", v>>}
    \cup (IF h[v].type \in {"string", "number"} THEN {<<"buf", v>>} ELSE {})
    \cup (IF h[v].keys # <<>> THEN {<<"keys", v>>, <<"values", v>>} ELSE {})
    \cup (IF h[v].children # <<>> THEN {<<"children", v>>} ELSE {})

\* The place of a block in the order of the frees.
FreedAt(b) == CHOOSE i \in 1..Len(freed) : freed[i] = b

\* C11: yajl_tree_free of a returned tree frees every block of every node
\* of the tree exactly once and nothing else, a node's own buffer and
\* arrays and all its children before the node itself, and leaves no block
\* of the tree allocated.
C11_TreeFreedOnceInPostOrder ==
  pc = "freed"
    => LET nodes == ReachableFrom(heap, {result})
           blocks == UNION {BlocksOf(heap, v) : v \in nodes}
       IN  /\ \A b \in blocks : Cardinality({i \in 1..Len(freed) : freed[i] = b}) = 1
           /\ \A i \in 1..Len(freed) : freed[i] \in blocks
           /\ \A v \in nodes :
                /\ \A b \in BlocksOf(heap, v) : FreedAt(b) <= FreedAt(<<"value", v>>)
                /\ \A c \in ChildrenOf(heap, v) :
                     FreedAt(<<"value", c>>) < FreedAt(<<"value", v>>)
           /\ blocks \cap live = {}

\* The owning slots that hold v: the root slot, the value and the pending
\* key of each stack element, each child slot of each array, each key slot
\* and each value slot of each object.
SlotsHolding(v) ==
  {<<"root", 0, 0>> : x \in {r \in {root} : r = v}}
    \cup {<<"stack_value", i, 0>> : i \in {j \in 1..Len(stack) : stack[j].value = v}}
    \cup {<<"stack_key", i, 0>> : i \in {j \in 1..Len(stack) : stack[j].key = v}}
    \cup UNION {{<<"child", c, i>> : i \in {j \in 1..Len(heap[c].children) :
                                            heap[c].children[j] = v}} : c \in 1..Len(heap)}
    \cup UNION {{<<"key", c, i>> : i \in {j \in 1..Len(heap[c].keys) :
                                          heap[c].keys[j] = v}} : c \in 1..Len(heap)}
    \cup UNION {{<<"value", c, i>> : i \in {j \in 1..Len(heap[c].values) :
                                            heap[c].values[j] = v}} : c \in 1..Len(heap)}

\* C12: every Value is held by at most one owning slot, and no Value is
\* among its own descendants.
C12_SingleOwner ==
  \A v \in 1..Len(heap) :
    /\ Cardinality(SlotsHolding(v)) <= 1
    /\ v \notin ReachableFrom(heap, ChildrenOf(heap, v))

\* A container closed inside an open array: it has left the stack and is
\* held by a child slot of that array alone.
C12_Witness ==
  /\ pc = "parsing"
  /\ last.ev \in EndEvents
  /\ last.depth = 2
  /\ status = STATUS_CONTINUE
  /\ heap[stack[1].value].children = <<last.v>>
  /\ SlotsHolding(last.v) = {<<"child", stack[1].value, 1>>}

\* A maximum depth a configuration could set: any below the number of
\* start events the event source can deliver.
DepthLimit == MaxEvents - 1

\* C13: the depth of the frame stack never exceeds the configured
\* maximum; a start event beyond it is rejected instead of pushing.
C13_DepthBounded == Len(stack) <= DepthLimit

\* C15: when no root value has been produced by the end of the input, as
\* with an empty event stream, yajl_tree_parse returns NULL, its error
\* result, and no value.  (ctx.root is never reset, so it is NULL at the
\* end exactly when no root was produced.)
C15_NoRootNoTree ==
  (pc = "returned" /\ root = NULL) => result = NULL

\* The event stream was empty and the tokenizer reported ok.
C15_Witness ==
  /\ pc = "returned"
  /\ last.ev = "complete"
  /\ last.arg = <<"ok">>
  /\ heap = <<>>
  /\ result = NULL

\* C16: an end event with a non-empty stack pops the top frame, the one
\* opened last, and frees its stack element, so that the depth goes down
\* by one and the frames below stay; when the handler continues, the
\* popped container has been routed like a leaf: stored as the root if the
\* stack is now empty, appended to the children of the new top array, or
\* appended with the pending key to the entries of the new top object.
C16_ClosePopsTopAndRoutes ==
  [][ (pc = "parsing" /\ stack # <<>> /\ last'.ev \in EndEvents)
      => LET v == stack[1].value
             below == Tail(stack)
         IN  /\ last'.v = v
             /\ Len(stack') = Len(below)
             /\ \A i \in 1..Len(below) : stack'[i].value = below[i].value
             /\ \A i \in 2..Len(below) : stack'[i] = below[i]
             /\ StackBlock(stack) \notin live'
             /\ (pc' = "parsing" /\ status' = STATUS_CONTINUE)
                  => IF below = <<>>
                       THEN root' = v
                     ELSE IF heap[below[1].value].type = "array"
                       THEN /\ heap'[below[1].value].children =
                                 Append(heap[below[1].value].children, v)
                            /\ root' = root
                     ELSE /\ below[1].key # NULL
                          /\ heap'[below[1].value].keys =
                               Append(heap[below[1].value].keys, below[1].key)
                          /\ heap'[below[1].value].values =
                               Append(heap[below[1].value].values, v)
                          /\ stack'[1].key = NULL
                          /\ root' = root
    ]_vars

\* An array opened inside an object after a key has been closed: it is the
\* value of the object's only entry, and the object is the top frame.
C16_Witness ==
  /\ pc = "parsing"
  /\ last.ev \in EndEvents
  /\ last.depth = 2
  /\ Len(stack) = 1
  /\ heap[stack[1].value].type = "object"
  /\ heap[stack[1].value].values = <<last.v>>
  /\ heap[last.v].type = "array"

\* Events whose handler passes a Value to context_add_value.
RoutingEvents == {"null", "boolean", "string", "number"} \cup EndEvents

\* The keys and values of every object are equally many, and while the
\* parse runs the values routed to an object are its entries in order,
\* key then value, followed by the pending key of its frame if there is one.
KeysAndValuesAlternate ==
  /\ \A o \in 1..Len(heap) : Len(heap[o].keys) = Len(heap[o].values)
  /\ pc = "parsing" =>
       \A o \in 1..Len(heap) : heap[o].type = "object" =>
         /\ \A i \in 1..Len(heap[o].keys) :
              /\ routed[o][2 * i - 1] = heap[o].keys[i]
              /\ routed[o][2 * i] = heap[o].values[i]
         /\ \A f \in 1..Len(stack) : stack[f].value = o =>
              IF stack[f].key = NULL
                THEN Len(routed[o]) = 2 * Len(heap[o].keys)
                ELSE /\ Len(routed[o]) = 2 * Len(heap[o].keys) + 1
                     /\ routed[o][Len(routed[o])] = stack[f].key

\* C17: when a handler routes a Value v to a top frame that is an object
\* with a pending key and continues, the object has got exactly one more
\* entry, (pending key, v), after its earlier entries, the frame's key is
\* cleared, and the frames below, the root and every other Value are as
\* before; in every reachable state each object has as many keys as
\* values, and the values routed to it alternate key, value.
C17_PendingKeyAppendsOneEntry ==
  /\ []KeysAndValuesAlternate
  /\ [][ LET fr == IF last'.ev \in EndEvents THEN Tail(stack) ELSE stack
             v == last'.v
         IN  ( /\ pc = "parsing" /\ pc' = "parsing"
               /\ status' = STATUS_CONTINUE
               /\ last'.ev \in RoutingEvents
               /\ fr # <<>>
               /\ heap[fr[1].value].type = "object"
               /\ fr[1].key # NULL )
             => LET o == fr[1].value IN
                /\ heap'[o].keys = Append(heap[o].keys, fr[1].key)
                /\ heap'[o].values = Append(heap[o].values, v)
                /\ stack' = [fr EXCEPT ![1].key = NULL]
                /\ root' = root
                /\ \A w \in 1..Len(heap) : w # o => heap'[w] = heap[w]
     ]_vars

\* A second entry has just been appended to the object on top of the
\* stack, after its first entry.
C17_Witness ==
  /\ pc = "parsing"
  /\ last.ev \in RoutingEvents
  /\ stack # <<>>
  /\ stack[1].key = NULL
  /\ heap[stack[1].value].type = "object"
  /\ Len(heap[stack[1].value].keys) = 2
  /\ heap[stack[1].value].values[2] = last.v

\* C18: as long as no handler has aborted, the children of every array,
\* open or closed, are exactly the values routed to its frame, in arrival
\* order, so that each routed value became the last child; an array or
\* object to whose frame nothing was routed has no children and no entries.
C18_ChildrenInArrivalOrder ==
  status = STATUS_CONTINUE =>
    \A a \in 1..Len(heap) :
      /\ heap[a].type = "array" => heap[a].children = routed[a]
      /\ (heap[a].type \in Containers /\ routed[a] = <<>>) =>
           /\ heap[a].children = <<>>
           /\ heap[a].keys = <<>>
           /\ heap[a].values = <<>>

\* An array with two children has been closed and stored as the root.
C18_Witness ==
  /\ pc = "parsing"
  /\ last.ev \in EndEvents
  /\ root = last.v
  /\ root # NULL
  /\ heap[root].type = "array"
  /\ Len(heap[root].children) = 2
  /\ heap[root].children[1] < heap[root].children[2]

\* What the context points at: the root slot and every stack element's
\* value and pending key.
ContextSlots ==
  ({root} \cup {stack[i].value : i \in 1..Len(stack)}
          \cup {stack[i].key : i \in 1..Len(stack)}) \ {NULL}

\* C19: while every handler so far has continued (and no assert was
\* compiled out, so that the root was stored once at most), every Value
\* that is allocated is reachable from the context: it is the root, a
\* stack element's value or pending key, or below one of them.
C19_LiveValuesReachable ==
  (pc = "parsing" /\ status = STATUS_CONTINUE /\ ~ndebug) =>
    \A v \in 1..Len(heap) :
      <<"value", v>> \in live => v \in ReachableFrom(heap, ContextSlots)

\* C20: an end event of either kind pops the top frame whatever the kind
\* of its container and routes it; the container keeps the kind its open
\* event gave it, and the handler aborts without an allocation failure
\* only when the frame below is an object without a pending key, never
\* because the kinds differ; closing the only frame with no root stored
\* always continues and stores the container as the root.
C20_EndHandlersInterchangeable ==
  [][ (pc = "parsing" /\ stack # <<>> /\ last'.ev \in EndEvents)
      => LET v == stack[1].value IN
         /\ last'.v = v
         /\ Len(stack') = Len(stack) - 1
         /\ heap'[v].type = heap[v].type
         /\ (pc' = "returned" /\ status' = STATUS_ABORT /\ err' # ENOMEM)
              => /\ Len(stack) >= 2
                 /\ heap[stack[2].value].type = "object"
                 /\ stack[2].key = NULL
         /\ (Len(stack) = 1 /\ root = NULL)
              => (pc' = "parsing" /\ status' = STATUS_CONTINUE /\ root' = v)
    ]_vars

\* An end-array event has closed an object, which is now the root.
C20_Witness ==
  /\ pc = "parsing"
  /\ status = STATUS_CONTINUE
  /\ last.ev = "end_array"
  /\ last.v # NULL
  /\ heap[last.v].type = "object"
  /\ root = last.v

====
